---- MODULE Spec2Model ----
(***************************************************************************)
(* todoist-cli: the batch commands (tasks:close, tasks:update), the single *)
(* update commands (task:update, project:update, label:update), the        *)
(* TodoistClient transport they call, the remote task service they talk    *)
(* to, the diff of two task snapshots (normalizeTaskForDiff, diffTasks),   *)
(* the tasks:diff command with its snapshot file, and Config.  One         *)
(* behaviour is a sequence of CLI invocations (processes) against one      *)
(* remote service; each await of a handler is one step.                    *)
(***************************************************************************)
EXTENDS Integers, Sequences, FiniteSets, TLC

(***************************************************************************)
(* Bounds of the model.                                                    *)
(***************************************************************************)
MaxId == 2          \* task identifiers are "1".."MaxId" (or the numbers)
MaxTaskIds == 3     \* explicit IDs on one command line
MaxListed == 1      \* tasks returned by one list query
MaxScope == 1       \* options that select targets on one command line
MaxOpts == 1        \* other options given on one command line
MaxRuns == 2         \* invocations in one behaviour
MaxDiffId == 2      \* tasks:diff: task identifiers are "1".."MaxDiffId"
MaxChanged == 2     \* tasks:diff: fields that deviate in the two snapshots

(***************************************************************************)
(* JavaScript values.  A value carries its type, so that a string and an   *)
(* array, or the string "1" and the number 1, are never equal.             *)
(***************************************************************************)
Undef == [t |-> "undefined"]
Null == [t |-> "null"]
Str(s) == [t |-> "string", s |-> s]
Chars(c) == [t |-> "string", c |-> c]
Num(n) == [t |-> "number", n |-> n]
Bool(b) == [t |-> "boolean", b |-> b]
Arr(a) == [t |-> "array", a |-> a]

\* JavaScript truthiness, as used by `a || b` and `x ? y : z`.
Truthy(v) ==
  CASE v.t \in {"undefined", "null"} -> FALSE
    [] v.t = "string" -> IF "s" \in DOMAIN v THEN v.s # "" ELSE v.c # <<>>
    [] v.t = "number" -> v.n # 0
    [] v.t = "boolean" -> v.b
    [] OTHER -> TRUE

\* A task identifier: the string "n" (a CLI argument, a REST v2 id) or the
\* number n (a numeric id in a list reply).
StrId(n) == [k |-> "string", n |-> n]
NumId(n) == [k |-> "number", n |-> n]
IdVals == 1..MaxId
ExplicitIds == {StrId(n) : n \in IdVals}

\* ${taskId} in a request path: the string "n" and the number n render alike.
PathId(id) == id.n

(***************************************************************************)
(* Strings the code searches are sequences of characters.                  *)
(***************************************************************************)
LowerLetters == <<"a","b","c","d","e","f","g","h","i","j","k","l","m","n","o","p","q","r","s","t","u","v","w","x","y","z">>

\* String.prototype.includes
Includes(s, sub) ==
  \E i \in 0..(Len(s) - Len(sub)) : SubSeq(s, i + 1, i + Len(sub)) = sub

\* The backtick character (written as a name: the lexer rejects it in a string).
Backtick == "backtick"
NoTokenMessage == <<"N","o"," ","T","o","d","o","i","s","t"," ","A","P","I"," ","t","o","k","e","n"," ","c","o","n","f","i","g","u","r","e","d","."," ","R","u","n"," ",Backtick,"t","o","d","o","i","s","t"," ","a","u","t","h"," ","l","o","g","i","n"," ","-","-","t","o","k","e","n"," ","<","A","P","I","_","T","O","K","E","N",">",Backtick," ","f","i","r","s","t",".">>
NoTargetsMessage == <<"P","r","o","v","i","d","e"," ","a","t"," ","l","e","a","s","t"," ","o","n","e"," ","t","a","s","k"," ","I","D"," ","o","r"," ","a"," ","f","i","l","t","e","r"," ","t","o"," ","s","e","l","e","c","t"," ","t","a","s","k","s",".">>
NoUpdatesMessage == <<"N","o"," ","u","p","d","a","t","e","s"," ","p","r","o","v","i","d","e","d",".">>
AlreadyLower == <<"a","l","r","e","a","d","y">>
AlreadyUpper == <<"A","L","R","E","A","D","Y">>

\* Error bodies the remote service answers with.
BodyEmpty == <<>>
BodyNotFound == <<"T","a","s","k"," ","n","o","t"," ","f","o","u","n","d">>
BodyAlreadyDeleted == <<"T","a","s","k"," ","a","l","r","e","a","d","y"," ","d","e","l","e","t","e","d">>
BodyAlreadyLower == <<"T","a","s","k"," ","a","l","r","e","a","d","y"," ","c","o","m","p","l","e","t","e","d">>
BodyAlreadyUpper == <<"T","A","S","K","_","A","L","R","E","A","D","Y","_","C","O","M","P","L","E","T","E","D">>
BodyInvalid == <<"I","n","v","a","l","i","d"," ","a","r","g","u","m","e","n","t"," ","v","a","l","u","e">>
BodyAlreadyMixed == <<"A","l","r","e","a","d","y"," ","c","o","m","p","l","e","t","e","d">>

\* ${response.status} ${response.statusText}
StatusLine(status) ==
  CASE status = 400 -> <<"4","0","0"," ","B","a","d"," ","R","e","q","u","e","s","t">>
    [] status = 404 -> <<"4","0","4"," ","N","o","t"," ","F","o","u","n","d">>
    [] status = 500 -> <<"5","0","0"," ","I","n","t","e","r","n","a","l"," ","S","e","r","v","e","r"," ","E","r","r","o","r">>
    [] OTHER -> <<"?">>

(***************************************************************************)
(* TodoistClient (src/src/lib/todoist-client.js).                          *)
(***************************************************************************)
mapStatusToCode(status) ==
  IF status = 401 \/ status = 403 THEN "UNAUTHORIZED"
  ELSE IF status = 404 THEN "TASK_NOT_FOUND"
  ELSE IF status = 429 THEN "RATE_LIMIT"
  ELSE IF status >= 500 THEN "SERVER_ERROR"
  ELSE IF status >= 400 THEN "VALIDATION_ERROR"
  ELSE "UNKNOWN_ERROR"

\* A reply of the remote service: HTTP status, error body, listed task ids.
Reply(status, body, ids) == [status |-> status, body |-> body, ids |-> ids]

\* A transport that takes every response as ok.
ResponseAlwaysOk(reply) == TRUE

\* response.ok
ResponseOk(reply) == reply.status >= 200 /\ reply.status <= 299

\* The Error request() throws for a response that is not ok.
ResponseError(reply) ==
  [message |-> IF reply.body # <<>>
                 THEN StatusLine(reply.status) \o <<":", " ">> \o reply.body
                 ELSE StatusLine(reply.status),
   status |-> reply.status,
   code |-> mapStatusToCode(reply.status)]

\* Errors thrown locally carry neither status nor code.
LocalError(message) == [message |-> message, status |-> 0, code |-> ""]
NoError == [message |-> <<>>, status |-> 0, code |-> ""]

\* A fetch, as request() issues it.
Call(method, res, id, op, query, body) ==
  [method |-> method, res |-> res, id |-> id, op |-> op, query |-> query, body |-> body]
NoQuery == [project_id |-> Undef, label_id |-> Undef, filter |-> Undef]

\* request() appends only the query entries that are neither undefined nor ''.
QueryParam(v) == IF v = Undef \/ v = Str("") THEN Undef ELSE v

\* getTasks(filters): GET /tasks with project_id, label_id and filter.
GetTasksCall(filters) ==
  Call("GET", "tasks", 0, "",
       [project_id |-> QueryParam(filters.projectId),
        label_id |-> QueryParam(filters.labelId),
        filter |-> QueryParam(filters.filter)],
       Undef)
CloseTaskCall(id) == Call("POST", "tasks", PathId(id), "close", NoQuery, Undef)
\* removeUndefined(obj): the entries whose value is defined.
removeUndefined(obj) == [f \in {g \in DOMAIN obj : obj[g] # Undef} |-> obj[f]]
UpdateCall(res, id, updates) ==
  Call("POST", res, PathId(id), "", NoQuery, removeUndefined(updates))
GetCall(res, id) == Call("GET", res, PathId(id), "", NoQuery, Undef)

IsListCall(c) == c.method = "GET" /\ c.res = "tasks" /\ c.id = 0
IsMutation(c) == c.method # "GET"

(***************************************************************************)
(* Helpers of src/src/index.js.                                            *)
(***************************************************************************)
\* String.prototype.trim on a sequence of characters.
RECURSIVE TrimLeft(_)
TrimLeft(s) == IF s # <<>> /\ Head(s) = " " THEN TrimLeft(Tail(s)) ELSE s
RECURSIVE TrimRight(_)
TrimRight(s) ==
  IF s # <<>> /\ s[Len(s)] = " " THEN TrimRight(SubSeq(s, 1, Len(s) - 1)) ELSE s
Trim(s) == TrimRight(TrimLeft(s))

\* String.prototype.split(','): the pieces between the commas, empty ones kept.
RECURSIVE Split(_, _)
Split(s, acc) ==
  IF s = <<>> THEN <<acc>>
  ELSE IF Head(s) = "," THEN <<acc>> \o Split(Tail(s), <<>>)
  ELSE Split(Tail(s), Append(acc, Head(s)))

\* parseCsv: split(',').map(trim).filter(Boolean)
parseCsv(value) ==
  LET pieces == Split(value, <<>>)
      trimmed == [i \in 1..Len(pieces) |-> Trim(pieces[i])]
  IN SelectSeq(trimmed, LAMBDA e : e # <<>>)

\* A deduplication that compares the identifiers as rendered text.
RECURSIVE uniqueOfCoerced(_)
uniqueOfCoerced(targets) ==
  IF targets = <<>> THEN <<>>
  ELSE LET front == uniqueOfCoerced(SubSeq(targets, 1, Len(targets) - 1))
           last == targets[Len(targets)]
       IN IF \E i \in 1..Len(front) : PathId(front[i]) = PathId(last)
            THEN front
            ELSE Append(front, last)

\* Array.from(new Set(targets)): first occurrences, in insertion order; the
\* Set compares with SameValueZero, so "1" and 1 are two elements.
RECURSIVE uniqueOf(_)
uniqueOf(targets) ==
  IF targets = <<>> THEN <<>>
  ELSE LET front == uniqueOf(SubSeq(targets, 1, Len(targets) - 1))
           last == targets[Len(targets)]
       IN IF \E i \in 1..Len(front) : front[i] = last
            THEN front
            ELSE Append(front, last)

\* A check that counts the keys of the payload instead of its values.
hasUpdatesAnyKey(updates) == DOMAIN updates # {}

\* Object.values(updates).some((value) => value !== undefined)
hasUpdates(updates) == \E f \in DOMAIN updates : updates[f] # Undef

(***************************************************************************)
(* Command lines.                                                          *)
(***************************************************************************)
BatchCommands == {"tasks:close", "tasks:update"}
SingleUpdateCommands == {"task:update", "project:update", "label:update"}
Commands == BatchCommands \cup SingleUpdateCommands

OptionNames ==
  {"cacheUpdate", "filter", "project", "label", "labels", "priority", "dueString", "dueDate",
   "dueDatetime", "dueLang", "assignee", "content", "description", "name",
   "color", "order", "favorite", "unfavorite"}

TaskUpdateOptions ==
  {"content", "description", "project", "labels", "priority", "dueString",
   "dueDate", "dueDatetime", "dueLang", "assignee"}

\* The options each command declares.
CommandOptions(c) ==
  CASE c = "tasks:close" -> {"filter", "project", "label"}
    [] c = "tasks:update" -> TaskUpdateOptions \cup {"filter"}
    [] c = "task:update" -> TaskUpdateOptions
    [] c = "project:update" -> {"name", "color", "favorite", "unfavorite"}
    [] c = "label:update" -> {"name", "color", "order", "favorite", "unfavorite"}

\* The values an option is given on the command line.
OptionValues(o) ==
  CASE o \in {"filter", "content"} -> {Str(""), Str("x")}
    [] o = "labels" -> {Chars(<<>>), Chars(<<",">>), Chars(<<"b", ",", " ", "a">>)}
    [] o \in {"priority", "order"} -> {Num(1)}
    [] o \in {"favorite", "unfavorite"} -> {Bool(TRUE)}
    [] OTHER -> {Str("x")}

\* The options that select targets; the others carry the update.
ScopeOptions(c) ==
  CASE c = "tasks:close" -> {"filter", "project", "label"}
    [] c = "tasks:update" -> {"filter"}
    [] OTHER -> {}

\* The assignments of values to the options in given.
Assignments(given) ==
  {v \in [given -> UNION {OptionValues(o) : o \in given}] :
     \A o \in given : v[o] \in OptionValues(o)}

\* The parsed options of a command line: at most MaxScope of the scope
\* options and at most MaxOpts of the others; an option that is not given is
\* undefined.
OptionChoices(c) ==
  UNION {
    { [o \in OptionNames |-> IF o \in given THEN val[o] ELSE Undef] :
        val \in Assignments(given) }
    : given \in {g \in SUBSET CommandOptions(c) :
                   /\ Cardinality(g \cap ScopeOptions(c)) <= MaxScope
                   /\ Cardinality(g \ ScopeOptions(c)) <= MaxOpts} }

\* The explicit IDs of a command line: any number of them for a batch
\* command, exactly one for the others.
RECURSIVE SeqsUpTo(_, _)
SeqsUpTo(S, n) ==
  IF n = 0 THEN {<<>>}
  ELSE LET shorter == SeqsUpTo(S, n - 1)
       IN shorter \cup {Append(q, x) : q \in shorter, x \in S}
TaskIdChoices(c) ==
  IF c \in BatchCommands
    THEN SeqsUpTo(ExplicitIds, MaxTaskIds)
    ELSE {<<id>> : id \in ExplicitIds}

(***************************************************************************)
(* The remote task service: what it may answer to a call.  A reply to a    *)
(* close depends on the state of the task: absent, open or closed.         *)
(***************************************************************************)
TaskStates == {"absent", "open", "closed"}
NoResponse == Reply(0, <<>>, <<>>)

\* Sequences without repetition, of length at most n.
DistinctSeqs(S, n) ==
  {q \in SeqsUpTo(S, n) : \A i, j \in 1..Len(q) : i # j => q[i] # q[j]}

\* GET /tasks: the tasks the service holds that match the query, with their
\* ids as strings or as numbers; or a failure.
ListReplies(tasksNow) ==
  LET present == {n \in IdVals : tasksNow[n] # "absent"}
      orders == DistinctSeqs(present, MaxListed)
  IN {Reply(200, <<>>, [i \in 1..Len(q) |-> StrId(q[i])]) : q \in orders}
       \cup {Reply(200, <<>>, [i \in 1..Len(q) |-> NumId(q[i])]) : q \in orders}
       \cup {Reply(500, BodyEmpty, <<>>)}

\* POST /tasks/{id}/close
CloseReplies(state) ==
  CASE state = "absent" ->
         {Reply(404, BodyNotFound, <<>>), Reply(404, BodyAlreadyDeleted, <<>>)}
    [] state = "open" ->
         {Reply(204, <<>>, <<>>), Reply(500, BodyEmpty, <<>>)}
    [] state = "closed" ->
         {Reply(204, <<>>, <<>>), Reply(400, BodyAlreadyLower, <<>>),
          Reply(400, BodyAlreadyUpper, <<>>), Reply(400, BodyAlreadyMixed, <<>>)}

\* POST /tasks/{id}, /projects/{id}, /labels/{id}
UpdateReplies(state) ==
  IF state = "absent"
    THEN {Reply(404, BodyNotFound, <<>>)}
    ELSE {Reply(204, <<>>, <<>>), Reply(400, BodyInvalid, <<>>)}

\* GET of one entity, GET /projects, GET /labels
GetReplies == {Reply(200, <<>>, <<>>), Reply(404, BodyNotFound, <<>>)}
LookupReplies == {Reply(200, <<>>, <<>>), Reply(500, BodyEmpty, <<>>)}

(***************************************************************************)
(* State.                                                                  *)
(***************************************************************************)
VARIABLES
  token,          \* config.getToken(): the stored credential, or null
  remote,         \* the remote service: state of each task
  run,            \* number of the current invocation
  cmd,            \* argv: the command
  taskIds,        \* argv: the explicit IDs
  options,        \* argv: the parsed options
  pc,             \* position of the handler: start, loop, fetch, lookups, done
  updates,        \* the update payload built from the options
  listed,         \* tasks.map((t) => t.id) of the list query
  targets,        \* the candidates: explicit IDs, then the listed ones
  uniqueTargets,  \* the deduplicated targets
  resolved,       \* uniqueTargets has been computed
  idx,            \* position of the for-of loop in uniqueTargets
  results,        \* the outcome entries
  responses,      \* what each target's call was answered with
  attempts,       \* the client operations the batch loop has invoked, in order
  calls,          \* the fetches issued by this invocation, in order
  exitCode,       \* process.exitCode
  thrown,         \* the error handleError was given
  printed,        \* the results were written to stdout
  prevClosed      \* the targets the previous invocation closed or left unchanged

VARIABLES
  previous,       \* tasks:diff: the task records of the stored snapshot
  current,        \* tasks:diff: the task records fetched now
  prevMap,        \* diffTasks: id -> canonical form of the previous records
  currMap,        \* diffTasks: id -> canonical form of the current records
  diff            \* diffTasks: the five lists it returns

VARIABLES
  collection,     \* tasks:diff: the task records the remote service holds
  cache,          \* tasks:diff: the snapshot file tasks_cache.json
  cacheAtStart,   \* the snapshot file as this invocation found it
  loaded,         \* tasks:diff: the value of `previous` after the read step
  reads,          \* readFileSync calls of this invocation
  writes,         \* writeFileSync calls of this invocation
  written,        \* whether a writeFileSync of this invocation succeeded
  lastStored      \* what the previous invocation fetched and stored

VARIABLES
  heap,           \* Config: the nested objects, by address
  thisConfig,     \* Config: this.config, member -> value or reference
  configFile,     \* Config: the file config.json
  fileAtLoad,     \* config.json as the constructor found it
  savedOnLoad,    \* whether loadConfig saved the migrated configuration
  lastCall        \* the method of Config called last

argv == <<cmd, taskIds, options>>
process == <<pc, updates, listed, targets, uniqueTargets, resolved, idx, results,
             responses, attempts, calls, exitCode, thrown, printed>>
history == <<run, prevClosed>>
diffing == <<previous, current, prevMap, currMap, diff>>
storage ==
  <<collection, cache, cacheAtStart, loaded, reads, writes, written, lastStored>>
configuration ==
  <<heap, thisConfig, configFile, fileAtLoad, savedOnLoad, lastCall>>
vars == <<token, remote, argv, process, history, diffing, storage, configuration>>

NoFields == [f \in {} |-> Undef]
NoDiff == [added |-> <<>>, removed |-> <<>>, completed |-> <<>>,
           reopened |-> <<>>, modified |-> <<>>]

\* The snapshot file: absent, present but not readable, or its text, which
\* is JSON of some value or is not JSON.
NoFile == [file |-> "absent"]
Unreadable == [file |-> "unreadable"]
NotJson == [file |-> "text", json |-> FALSE]
JsonFile(value) == [file |-> "text", json |-> TRUE, value |-> value]
NothingStored == [stored |-> FALSE]

\* No tasks:diff has touched the snapshot file.
NoStorage ==
  /\ collection = <<>>
  /\ cache = NoFile
  /\ cacheAtStart = NoFile
  /\ loaded = Arr(<<>>)
  /\ reads = 0
  /\ writes = 0
  /\ written = FALSE
  /\ lastStored = NothingStored

\* DEFAULT_CONFIG is one object of the module; `{ ...DEFAULT_CONFIG }` copies
\* its four members, which are references to its nested objects.  The
\* nested objects live in a heap.
Sections == {"auth", "defaults", "output", "api"}
Fields == {"token", "format", "color", "base_url"}
V1Url == Str("https://api.todoist.com/rest/v1")
V1UrlWithSlash == Str("https://api.todoist.com/rest/v1/")
DEFAULT_BASE_URL == Str("https://api.todoist.com/rest/v2")
CustomUrl == Str("https://proxy.example/rest/v2")
SomeToken == Str("tok")
OtherToken == Str("tok2")

\* The object DEFAULT_CONFIG.<part>, the object JSON.parse made for <part>
\* of the file, and the `{}` that set() or migrateConfig() put at <part>.
At(home, part) == [home |-> home, part |-> part]
Ref(address) == [t |-> "ref", at |-> address]
Addresses == {At(home, part) : home \in {"DEFAULT_CONFIG", "parsed", "created"},
                               part \in Sections}

\* `{}`
EmptyObject == [f \in Fields |-> Undef]
With(field, value) == [EmptyObject EXCEPT ![field] = value]

\* DEFAULT_CONFIG as the module defines it.
BuiltIn ==
  [auth |-> With("token", Null),
   defaults |-> With("format", Str("table")),
   output |-> With("color", Bool(TRUE)),
   api |-> With("base_url", DEFAULT_BASE_URL)]
DEFAULT_CONFIG == [part \in Sections |-> Ref(At("DEFAULT_CONFIG", part))]
InitialHeap ==
  [a \in Addresses |-> IF a.home = "DEFAULT_CONFIG" THEN BuiltIn[a.part] ELSE EmptyObject]

\* No Config method has been called.
NoConfiguration ==
  /\ heap = InitialHeap
  /\ thisConfig = DEFAULT_CONFIG
  /\ configFile = NoFile
  /\ fileAtLoad = NoFile
  /\ savedOnLoad = FALSE
  /\ lastCall = "none"

Init ==
  /\ token \in {Null, Str("secret")}
  /\ remote \in [IdVals -> TaskStates]
  /\ run = 1
  /\ cmd \in Commands
  /\ taskIds \in TaskIdChoices(cmd)
  /\ options \in OptionChoices(cmd)
  /\ pc = "start"
  /\ updates = NoFields
  /\ listed = <<>>
  /\ targets = <<>>
  /\ uniqueTargets = <<>>
  /\ resolved = FALSE
  /\ idx = 1
  /\ results = <<>>
  /\ responses = <<>>
  /\ attempts = <<>>
  /\ calls = <<>>
  /\ exitCode = 0
  /\ thrown = NoError
  /\ printed = FALSE
  /\ prevClosed = {}
  /\ previous = <<>>
  /\ current = <<>>
  /\ prevMap = <<>>
  /\ currMap = <<>>
  /\ diff = NoDiff
  /\ NoStorage
  /\ NoConfiguration

(***************************************************************************)
(* withClient and handleError.                                             *)
(***************************************************************************)
\* A handler of errors that leaves the exit code alone.
handleErrorQuietly(error) ==
  /\ thrown' = error
  /\ exitCode' = exitCode

\* handleError: the message goes to stderr and the exit code is set.
handleError(error) ==
  /\ thrown' = error
  /\ exitCode' = 1

\* The catch of withClient: the handler is over.
Caught(error) ==
  /\ pc' = "done"
  /\ handleError(error)

\* request() throws before any fetch when no token is configured.
NoTokenError == LocalError(NoTokenMessage)

(***************************************************************************)
(* Target resolution of the batch commands.                                *)
(***************************************************************************)
\* A scoping test that looks at the filter only.
closeScopedFilterOnly(opts) == Truthy(opts.filter)

\* tasks:close selects by filter, project or label.
closeScoped(opts) ==
  Truthy(opts.filter) \/ Truthy(opts.project) \/ Truthy(opts.label)
closeFilters(opts) ==
  [filter |-> opts.filter, projectId |-> opts.project, labelId |-> opts.label]

\* tasks:update selects by filter only: --project is a field of the update.
updateScoped(opts) == Truthy(opts.filter)
updateFilters(opts) ==
  [filter |-> opts.filter, projectId |-> Undef, labelId |-> Undef]

Unresolved == UNCHANGED <<listed, targets, uniqueTargets, resolved>>

\* A deduplication that lets an empty target set through.
DeduplicateUnchecked(candidates, ids) ==
  /\ listed' = ids
  /\ targets' = candidates
  /\ uniqueTargets' = uniqueOf(candidates)
  /\ resolved' = TRUE
  /\ pc' = "loop"
  /\ UNCHANGED <<exitCode, thrown>>

\* uniqueTargets = Array.from(new Set(targets)); an empty set is an error.
Deduplicate(candidates, ids) ==
  /\ listed' = ids
  /\ targets' = candidates
  /\ uniqueTargets' = uniqueOf(candidates)
  /\ resolved' = TRUE
  /\ IF Len(uniqueOf(candidates)) = 0
       THEN Caught(LocalError(NoTargetsMessage))
       ELSE pc' = "loop" /\ UNCHANGED <<exitCode, thrown>>

\* A resolution that queries the list whatever the scoping.
ResolveTargetsAlways(scoped, filters) ==
  IF ~Truthy(token)
    THEN Caught(NoTokenError) /\ Unresolved /\ UNCHANGED calls
    ELSE \E reply \in ListReplies(remote) :
           /\ calls' = Append(calls, GetTasksCall(filters))
           /\ IF ResponseOk(reply)
                THEN Deduplicate(taskIds \o reply.ids, reply.ids)
                ELSE Caught(ResponseError(reply)) /\ Unresolved

\* targets = [...taskIds], then the ids of the list query when one is asked for.
ResolveTargets(scoped, filters) ==
  IF scoped
    THEN IF ~Truthy(token)
           THEN Caught(NoTokenError) /\ Unresolved /\ UNCHANGED calls
           ELSE \E reply \in ListReplies(remote) :
                  /\ calls' = Append(calls, GetTasksCall(filters))
                  /\ IF ResponseOk(reply)
                       THEN Deduplicate(taskIds \o reply.ids, reply.ids)
                       ELSE Caught(ResponseError(reply)) /\ Unresolved
    ELSE Deduplicate(taskIds, <<>>) /\ UNCHANGED calls

(***************************************************************************)
(* tasks:close                                                             *)
(***************************************************************************)
TasksCloseStart ==
  /\ pc = "start"
  /\ cmd = "tasks:close"
  /\ ResolveTargets(closeScoped(options), closeFilters(options))
  /\ UNCHANGED <<configuration, storage, diffing, attempts, token, remote, argv, history, updates, idx, results,
                 responses, printed>>

\* A catch that keeps the message on the unchanged entry as well.
closeOutcomeWithMessage(id, error) ==
  LET message == error.message
  IN IF Includes(message, AlreadyUpper) \/ Includes(message, AlreadyLower)
       THEN [id |-> id, status |-> "unchanged", error |-> message]
       ELSE [id |-> id, status |-> "failed", error |-> message]

\* The catch of the close loop: error?.message || String(error), searched
\* for 'ALREADY' and 'already'.
closeOutcome(id, error) ==
  LET message == error.message
  IN IF Includes(message, AlreadyUpper) \/ Includes(message, AlreadyLower)
       THEN [id |-> id, status |-> "unchanged"]
       ELSE [id |-> id, status |-> "failed", error |-> message]

\* A loop that stops at the first failed target.
PushStopOnFailure(entry) ==
  /\ results' = Append(results, entry)
  /\ idx' = IF entry.status = "failed" THEN Len(uniqueTargets) + 1 ELSE idx + 1
  /\ UNCHANGED <<pc, exitCode, thrown>>

\* One entry is pushed and the loop goes on.
Push(entry) ==
  /\ results' = Append(results, entry)
  /\ idx' = idx + 1
  /\ UNCHANGED <<pc, exitCode, thrown>>

\* client.closeTask(id) and client.updateTask(id, updates), as the loop
\* invokes them.
closeTask(id) == [op |-> "closeTask", id |-> id]
updateTask(id, payload) == [op |-> "updateTask", id |-> id, updates |-> payload]

\* A loop that invokes the operation of a failed target a second time.
InvokeAgainOnFailure(operation, ok) ==
  attempts' = IF ok THEN Append(attempts, operation)
                    ELSE attempts \o <<operation, operation>>

\* The try block awaits the client operation once; the catch only records.
Invoke(operation, ok) ==
  attempts' = Append(attempts, operation)

\* One iteration of the loop: one closeTask call, one entry.
TasksCloseLoop ==
  /\ pc = "loop"
  /\ cmd = "tasks:close"
  /\ idx <= Len(uniqueTargets)
  /\ LET id == uniqueTargets[idx]
     IN IF ~Truthy(token)
          THEN /\ Invoke(closeTask(id), FALSE)
               /\ Push(closeOutcome(id, NoTokenError))
               /\ responses' = Append(responses, NoResponse)
               /\ UNCHANGED <<calls, remote>>
          ELSE \E reply \in CloseReplies(remote[PathId(id)]) :
                 /\ Invoke(closeTask(id), ResponseOk(reply))
                 /\ calls' = Append(calls, CloseTaskCall(id))
                 /\ responses' = Append(responses, reply)
                 /\ IF ResponseOk(reply)
                      THEN /\ Push([id |-> id, status |-> "closed"])
                           /\ remote' = [remote EXCEPT ![PathId(id)] = "closed"]
                      ELSE /\ Push(closeOutcome(id, ResponseError(reply)))
                           /\ UNCHANGED remote
  /\ UNCHANGED <<configuration, storage, diffing, token, argv, history, updates, listed, targets,
                 uniqueTargets, resolved, printed>>

\* After the loop the results are printed; the exit code is not touched.
TasksCloseFinish ==
  /\ pc = "loop"
  /\ cmd = "tasks:close"
  /\ idx > Len(uniqueTargets)
  /\ printed' = TRUE
  /\ pc' = "done"
  /\ UNCHANGED <<configuration, storage, diffing, attempts, token, remote, argv, history, updates, listed, targets,
                 uniqueTargets, resolved, idx, results, responses, calls,
                 exitCode, thrown>>

(***************************************************************************)
(* tasks:update                                                            *)
(***************************************************************************)
\* The payload of task:update and tasks:update.
taskUpdates(opts) ==
  [content |-> opts.content,
   description |-> opts.description,
   project_id |-> opts.project,
   label_ids |-> IF Truthy(opts.labels) THEN Arr(parseCsv(opts.labels.c)) ELSE Undef,
   priority |-> opts.priority,
   due_string |-> opts.dueString,
   due_date |-> opts.dueDate,
   due_datetime |-> opts.dueDatetime,
   due_lang |-> opts.dueLang,
   assignee |-> opts.assignee]

TasksUpdateStart ==
  /\ pc = "start"
  /\ cmd = "tasks:update"
  /\ updates' = taskUpdates(options)
  /\ IF ~hasUpdates(taskUpdates(options))
       THEN Caught(LocalError(NoUpdatesMessage)) /\ Unresolved /\ UNCHANGED calls
       ELSE ResolveTargets(updateScoped(options), updateFilters(options))
  /\ UNCHANGED <<configuration, storage, diffing, attempts, token, remote, argv, history, idx, results, responses, printed>>

updateOutcome(id, error) ==
  [id |-> id, status |-> "failed", error |-> error.message]

TasksUpdateLoop ==
  /\ pc = "loop"
  /\ cmd = "tasks:update"
  /\ idx <= Len(uniqueTargets)
  /\ LET id == uniqueTargets[idx]
     IN IF ~Truthy(token)
          THEN /\ Invoke(updateTask(id, updates), FALSE)
               /\ Push(updateOutcome(id, NoTokenError))
               /\ responses' = Append(responses, NoResponse)
               /\ UNCHANGED calls
          ELSE \E reply \in UpdateReplies(remote[PathId(id)]) :
                 /\ Invoke(updateTask(id, updates), ResponseOk(reply))
                 /\ calls' = Append(calls, UpdateCall("tasks", id, updates))
                 /\ responses' = Append(responses, reply)
                 /\ IF ResponseOk(reply)
                      THEN Push([id |-> id, status |-> "updated"])
                      ELSE Push(updateOutcome(id, ResponseError(reply)))
  /\ UNCHANGED <<configuration, storage, diffing, token, remote, argv, history, updates, listed,
                 targets, uniqueTargets, resolved, printed>>

TasksUpdateFinish ==
  /\ pc = "loop"
  /\ cmd = "tasks:update"
  /\ idx > Len(uniqueTargets)
  /\ printed' = TRUE
  /\ pc' = "done"
  /\ UNCHANGED <<configuration, storage, diffing, attempts, token, remote, argv, history, updates, listed, targets,
                 uniqueTargets, resolved, idx, results, responses, calls,
                 exitCode, thrown>>

(***************************************************************************)
(* task:update, project:update, label:update                               *)
(***************************************************************************)
\* favorite is set only by --favorite or --unfavorite, the latter winning.
withFavorite(base, opts) ==
  IF Truthy(opts.unfavorite) THEN [favorite |-> Bool(FALSE)] @@ base
  ELSE IF Truthy(opts.favorite) THEN [favorite |-> Bool(TRUE)] @@ base
  ELSE base

projectUpdates(opts) ==
  withFavorite([name |-> opts.name, color |-> opts.color], opts)

labelUpdates(opts) ==
  withFavorite([name |-> opts.name, color |-> opts.color, order |-> opts.order], opts)

buildUpdates(c, opts) ==
  CASE c = "project:update" -> projectUpdates(opts)
    [] c = "label:update" -> labelUpdates(opts)
    [] OTHER -> taskUpdates(opts)

Resource(c) ==
  CASE c = "project:update" -> "projects"
    [] c = "label:update" -> "labels"
    [] OTHER -> "tasks"

\* What the service may answer to the update of the entity of command c.
EntityUpdateReplies(c, id) ==
  IF Resource(c) = "tasks"
    THEN UpdateReplies(remote[PathId(id)])
    ELSE UpdateReplies("open") \cup UpdateReplies("absent")

\* The handler up to its first await: the payload, the no-updates check and
\* the update call.
SingleUpdateStart(c) ==
  /\ pc = "start"
  /\ cmd = c
  /\ updates' = buildUpdates(c, options)
  /\ IF ~hasUpdates(buildUpdates(c, options))
       THEN Caught(LocalError(NoUpdatesMessage)) /\ UNCHANGED calls
       ELSE IF ~Truthy(token)
         THEN Caught(NoTokenError) /\ UNCHANGED calls
         ELSE \E reply \in EntityUpdateReplies(c, taskIds[1]) :
                /\ calls' = Append(calls, UpdateCall(Resource(c), taskIds[1],
                                                     buildUpdates(c, options)))
                /\ IF ResponseOk(reply)
                     THEN pc' = "fetch" /\ UNCHANGED <<exitCode, thrown>>
                     ELSE Caught(ResponseError(reply))
  /\ UNCHANGED <<configuration, storage, diffing, attempts, token, remote, argv, history, listed, targets, uniqueTargets,
                 resolved, idx, results, responses, printed>>

\* The updated entity is fetched again; project and label are then printed.
SingleUpdateFetch(c) ==
  /\ pc = "fetch"
  /\ cmd = c
  /\ \E reply \in GetReplies :
       /\ calls' = Append(calls, GetCall(Resource(c), taskIds[1]))
       /\ IF ResponseOk(reply)
            THEN /\ UNCHANGED <<exitCode, thrown>>
                 /\ IF c = "task:update"
                      THEN pc' = "lookups" /\ UNCHANGED printed
                      ELSE pc' = "done" /\ printed' = TRUE
            ELSE Caught(ResponseError(reply)) /\ UNCHANGED printed
  /\ UNCHANGED <<configuration, storage, diffing, attempts, token, remote, argv, history, updates, listed, targets,
                 uniqueTargets, resolved, idx, results, responses>>

TaskUpdateStart == SingleUpdateStart("task:update")
TaskUpdateFetch == SingleUpdateFetch("task:update")
ProjectUpdateStart == SingleUpdateStart("project:update")
ProjectUpdateFetch == SingleUpdateFetch("project:update")
LabelUpdateStart == SingleUpdateStart("label:update")
LabelUpdateFetch == SingleUpdateFetch("label:update")

\* buildLookupContext(client, true): projects and labels are fetched
\* together; the task is printed when both fetches succeed.
TaskUpdateLookups ==
  /\ pc = "lookups"
  /\ cmd = "task:update"
  /\ calls' = calls \o <<Call("GET", "projects", 0, "", NoQuery, Undef),
                         Call("GET", "labels", 0, "", NoQuery, Undef)>>
  /\ \E projects \in LookupReplies, labels \in LookupReplies :
       IF ResponseOk(projects) /\ ResponseOk(labels)
         THEN pc' = "done" /\ printed' = TRUE /\ UNCHANGED <<exitCode, thrown>>
         ELSE /\ Caught(ResponseError(IF ResponseOk(projects) THEN labels ELSE projects))
              /\ UNCHANGED printed
  /\ UNCHANGED <<configuration, storage, diffing, attempts, token, remote, argv, history, updates, listed, targets,
                 uniqueTargets, resolved, idx, results, responses>>

(***************************************************************************)
(* The same command line is run again: a new process, the same remote      *)
(* service and the same configuration.                                     *)
(***************************************************************************)
RunAgain ==
  /\ pc = "done"
  /\ run < MaxRuns
  /\ run' = run + 1
  /\ prevClosed' = {results[i].id : i \in {j \in 1..Len(results) :
                                             results[j].status # "failed"}}
  /\ pc' = "start"
  /\ updates' = NoFields
  /\ listed' = <<>>
  /\ targets' = <<>>
  /\ uniqueTargets' = <<>>
  /\ resolved' = FALSE
  /\ idx' = 1
  /\ results' = <<>>
  /\ responses' = <<>>
  /\ attempts' = <<>>
  /\ calls' = <<>>
  /\ exitCode' = 0
  /\ thrown' = NoError
  /\ printed' = FALSE
  /\ UNCHANGED <<configuration, storage, diffing, token, remote, argv>>

Next ==
  \/ TasksCloseStart
  \/ TasksCloseLoop
  \/ TasksCloseFinish
  \/ TasksUpdateStart
  \/ TasksUpdateLoop
  \/ TasksUpdateFinish
  \/ TaskUpdateStart
  \/ TaskUpdateFetch
  \/ TaskUpdateLookups
  \/ ProjectUpdateStart
  \/ ProjectUpdateFetch
  \/ LabelUpdateStart
  \/ LabelUpdateFetch

Spec == Init /\ [][Next]_vars

(***************************************************************************)
(* Repeated invocations of tasks:close against one remote service.         *)
(***************************************************************************)
InitRepeat ==
  /\ Init
  /\ cmd = "tasks:close"
  /\ Truthy(token)

NextRepeat ==
  \/ TasksCloseStart
  \/ TasksCloseLoop
  \/ TasksCloseFinish
  \/ RunAgain

SpecRepeat == InitRepeat /\ [][NextRepeat]_vars

(***************************************************************************)
(* tasks:diff: the canonical form of a task and the diff of two snapshots. *)
(***************************************************************************)
\* An object value: its keys in insertion order and its fields.
Obj(keys, o) == [t |-> "object", keys |-> keys, o |-> o]

\* A lookup that finds no key.
MapHasNever(m, k) == FALSE

\* A Map, in insertion order: set() replaces the value of a key it holds.
MapHas(m, k) == \E i \in 1..Len(m) : m[i].key = k
MapGet(m, k) == m[CHOOSE i \in 1..Len(m) : m[i].key = k].value
MapSet(m, k, v) ==
  IF MapHas(m, k)
    THEN [i \in 1..Len(m) |-> IF m[i].key = k THEN [key |-> k, value |-> v] ELSE m[i]]
    ELSE Append(m, [key |-> k, value |-> v])
RECURSIVE NewMap(_)
NewMap(entries) ==
  IF entries = <<>> THEN <<>>
  ELSE LET n == Len(entries)
       IN MapSet(NewMap(SubSeq(entries, 1, n - 1)), entries[n].key, entries[n].value)

\* The default comparison of sort(): by the code units of the string forms.
\* Label names are single lower-case letters.
CodeUnit(ch) == CHOOSE i \in 1..26 : LowerLetters[i] = ch
SortsAfter(a, b) == CodeUnit(a.s) > CodeUnit(b.s)

\* A copy of the labels that is left in the order of the record.
SortAsIs(a) == a

\* Array.prototype.sort(): stable, ascending.
RECURSIVE Sort(_)
Sort(a) ==
  IF Len(a) <= 1 THEN a
  ELSE LET n == Len(a)
           front == Sort(SubSeq(a, 1, n - 1))
           after == {i \in 1..(n - 1) : SortsAfter(front[i], a[n])}
           at == IF after = {} THEN n
                 ELSE CHOOSE i \in after : \A j \in after : i <= j
       IN SubSeq(front, 1, at - 1) \o <<a[n]>> \o SubSeq(front, at, n - 1)

\* The due date of the canonical form keeps four fields of task.due.
DueKeys == <<"date", "string", "lang", "is_recurring">>
reducedDue(due) ==
  Obj(DueKeys, [date |-> due.o.date, string |-> due.o.string,
                lang |-> due.o.lang, is_recurring |-> due.o.is_recurring])

\* labels: task.labels ? [...task.labels].sort() : []
canonicalLabels(task) ==
  IF Truthy(task.labels) THEN Arr(Sort(task.labels.a)) ELSE Arr(<<>>)

\* is_completed: task.is_completed || task.completed || false
canonicalCompleted(task) ==
  IF Truthy(task.is_completed) THEN task.is_completed
  ELSE IF Truthy(task.completed) THEN task.completed
  ELSE Bool(FALSE)

CanonicalKeys ==
  <<"id", "content", "description", "project_id", "section_id", "parent_id",
    "order", "labels", "priority", "due", "is_completed">>

normalizeTaskForDiff(task) ==
  [id |-> task.id,
   content |-> task.content,
   description |-> IF Truthy(task.description) THEN task.description ELSE Str(""),
   project_id |-> task.project_id,
   section_id |-> task.section_id,
   parent_id |-> task.parent_id,
   order |-> task.order,
   labels |-> canonicalLabels(task),
   priority |-> task.priority,
   due |-> IF Truthy(task.due) THEN reducedDue(task.due) ELSE Null,
   is_completed |-> canonicalCompleted(task)]

\* JSON.stringify, as a sequence of tokens: a member whose value is
\* undefined is left out of an object and written null in an array.
RECURSIVE Stringify(_)
RECURSIVE StringifyMembers(_, _, _)
RECURSIVE StringifyElements(_, _)
StringifyMembers(keys, o, first) ==
  IF keys = <<>> THEN <<>>
  ELSE LET key == Head(keys)
       IN IF key \notin DOMAIN o \/ o[key] = Undef
            THEN StringifyMembers(Tail(keys), o, first)
            ELSE (IF first THEN <<>> ELSE <<",">>)
                   \o <<"\"", key, "\"", ":">> \o Stringify(o[key])
                   \o StringifyMembers(Tail(keys), o, FALSE)
StringifyElements(a, first) ==
  IF a = <<>> THEN <<>>
  ELSE (IF first THEN <<>> ELSE <<",">>)
         \o (IF Head(a) = Undef THEN <<"null">> ELSE Stringify(Head(a)))
         \o StringifyElements(Tail(a), FALSE)
Stringify(v) ==
  IF "k" \in DOMAIN v
    THEN IF v.k = "string" THEN <<"\"", ToString(v.n), "\"">> ELSE <<ToString(v.n)>>
    ELSE CASE v.t = "null" -> <<"null">>
           [] v.t = "string" -> <<"\"", v.s, "\"">>
           [] v.t = "number" -> <<ToString(v.n)>>
           [] v.t = "boolean" -> <<IF v.b THEN "true" ELSE "false">>
           [] v.t = "array" -> <<"[">> \o StringifyElements(v.a, TRUE) \o <<"]">>
           [] v.t = "object" -> <<"{">> \o StringifyMembers(v.keys, v.o, TRUE) \o <<"}">>

\* { ...canonical } with is_completed deleted, as JSON text.
WithoutCompleted(canonical) ==
  Obj(SelectSeq(CanonicalKeys, LAMBDA key : key # "is_completed"),
      [f \in DOMAIN canonical \ {"is_completed"} |-> canonical[f]])

\* A comparison that takes the completion flag along.
DiffersWithCompleted(prev, curr) ==
  Stringify(Obj(CanonicalKeys, prev)) # Stringify(Obj(CanonicalKeys, curr))

\* JSON.stringify(prevCopy) !== JSON.stringify(currCopy)
Differs(prev, curr) ==
  Stringify(WithoutCompleted(prev)) # Stringify(WithoutCompleted(curr))

Values(entries) == [i \in 1..Len(entries) |-> entries[i].value]
normalizedMap(tasks) ==
  NewMap([i \in 1..Len(tasks) |->
            [key |-> tasks[i].id, value |-> normalizeTaskForDiff(tasks[i])]])

\* A pass that pushes every entry of the map.
AllOf(m, other) == m

\* if (!other.has(id)) push: the entries of m whose id the other map lacks.
OnlyIn(m, other) == SelectSeq(m, LAMBDA e : ~MapHas(other, e.key))

\* A test that looks at the current flag only.
nowCompleted(prev, curr) == curr.is_completed = Bool(TRUE)

\* prev.is_completed === false && curr.is_completed === true
isCompleted(prev, curr) ==
  prev.is_completed = Bool(FALSE) /\ curr.is_completed = Bool(TRUE)

\* A second test that is not the else of the first.
wasOpen(prev, curr) == prev.is_completed = Bool(FALSE)

\* else if (prev.is_completed === true && curr.is_completed === false)
isReopened(prev, curr) ==
  /\ ~isCompleted(prev, curr)
  /\ prev.is_completed = Bool(TRUE)
  /\ curr.is_completed = Bool(FALSE)

\* A diff that finds nothing.
diffNothing(prev, curr) == NoDiff

\* The two forEach passes: an entry of current that previous lacks is added
\* and nothing else; the others are tested for a status flip and for a
\* difference; an entry of previous that current lacks is removed.
diffTasks(prev, curr) ==
  LET pMap == normalizedMap(prev)
      cMap == normalizedMap(curr)
      both == SelectSeq(cMap, LAMBDA e : MapHas(pMap, e.key))
      before(e) == MapGet(pMap, e.key)
      changed == SelectSeq(both, LAMBDA e : Differs(before(e), e.value))
  IN [added |-> Values(OnlyIn(cMap, pMap)),
      removed |-> Values(OnlyIn(pMap, cMap)),
      completed |-> Values(SelectSeq(both, LAMBDA e : isCompleted(before(e), e.value))),
      reopened |-> Values(SelectSeq(both, LAMBDA e : isReopened(before(e), e.value))),
      modified |-> [i \in 1..Len(changed) |->
                      [before |-> before(changed[i]), after |-> changed[i].value]]]

(***************************************************************************)
(* The snapshots diffTasks is given: records of the REST v2 shape, some    *)
(* fields of which deviate, among them the legacy names label_ids and      *)
(* completed.                                                              *)
(***************************************************************************)
DiffIds == 1..MaxDiffId
LabelX == Str("x")
LabelY == Str("y")
RawDueKeys == <<"date", "is_recurring", "datetime", "string", "timezone", "lang">>
RawDue(datetime) ==
  Obj(RawDueKeys, [date |-> Str("2024-05-01"), is_recurring |-> Bool(FALSE),
                   datetime |-> Str(datetime), string |-> Str("May 1"),
                   timezone |-> Null, lang |-> Str("en")])

BaseTask(n) ==
  [id |-> StrId(n),
   content |-> Str("a"),
   description |-> Str(""),
   project_id |-> Str("p"),
   section_id |-> Null,
   parent_id |-> Null,
   order |-> Num(1),
   labels |-> Arr(<<>>),
   label_ids |-> Undef,
   priority |-> Num(1),
   due |-> Null,
   is_completed |-> Bool(FALSE),
   completed |-> Undef]
TaskFields == DOMAIN BaseTask(1) \ {"id"}

\* The values a field takes when it deviates.
FieldValues(f) ==
  CASE f = "content" -> {Str("b")}
    [] f = "description" -> {Undef, Str("d")}
    [] f = "project_id" -> {Str("q")}
    [] f = "section_id" -> {Str("s")}
    [] f = "parent_id" -> {Str("t")}
    [] f = "order" -> {Num(2)}
    [] f = "labels" -> {Undef, Arr(<<LabelX, LabelY>>), Arr(<<LabelY, LabelX>>)}
    [] f = "label_ids" -> {Arr(<<LabelY, LabelX>>)}
    [] f = "priority" -> {Num(4)}
    [] f = "due" -> {RawDue("09:00"), RawDue("10:00")}
    [] f = "is_completed" -> {Undef, Bool(TRUE)}
    [] f = "completed" -> {Bool(FALSE), Bool(TRUE)}

\* The ways in which exactly j fields of a record deviate.
Deviations(given) ==
  {v \in [given -> UNION {FieldValues(f) : f \in given}] :
     \A f \in given : v[f] \in FieldValues(f)}
DeviationsOf ==
  [j \in 0..MaxChanged |->
     UNION {Deviations(given) :
              given \in {g \in SUBSET TaskFields : Cardinality(g) = j}}]

RawTask(n, deviation) ==
  [f \in DOMAIN BaseTask(n) |->
     IF f \in DOMAIN deviation THEN deviation[f] ELSE BaseTask(n)[f]]

\* The two snapshots hold some of the tasks each, by ascending id.  Place s
\* is task s of previous, place MaxDiffId + s is task s of current; a split
\* gives each place the number of its fields that deviate, or Absent, and
\* at most MaxChanged fields deviate in the two snapshots together.
Places == 1..(2 * MaxDiffId)
Absent == 0 - 1
RECURSIVE Spent(_, _)
Spent(split, place) ==
  IF place = 0 THEN 0
  ELSE Spent(split, place - 1) + (IF split[place] = Absent THEN 0 ELSE split[place])
Splits ==
  {split \in [Places -> {Absent} \cup (0..MaxChanged)] :
     Spent(split, 2 * MaxDiffId) <= MaxChanged}

WithTask(pair, place, task) ==
  IF place <= MaxDiffId
    THEN [pair EXCEPT !.previous = Append(@, task)]
    ELSE [pair EXCEPT !.current = Append(@, task)]
PlaceId(place) == IF place <= MaxDiffId THEN place ELSE place - MaxDiffId
RECURSIVE SnapshotPairs(_, _)
SnapshotPairs(split, place) ==
  IF place = 0 THEN {[previous |-> <<>>, current |-> <<>>]}
  ELSE IF split[place] = Absent THEN SnapshotPairs(split, place - 1)
  ELSE { WithTask(pair, place, RawTask(PlaceId(place), deviation)) :
           pair \in SnapshotPairs(split, place - 1),
           deviation \in DeviationsOf[split[place]] }

InitDiff ==
  /\ token = Str("secret")
  /\ remote = [n \in IdVals |-> "open"]
  /\ run = 1
  /\ cmd = "tasks:diff"
  /\ taskIds = <<>>
  /\ options = [o \in OptionNames |-> Undef]
  /\ pc = "start"
  /\ updates = NoFields
  /\ listed = <<>>
  /\ targets = <<>>
  /\ uniqueTargets = <<>>
  /\ resolved = FALSE
  /\ idx = 1
  /\ results = <<>>
  /\ responses = <<>>
  /\ attempts = <<>>
  /\ calls = <<>>
  /\ exitCode = 0
  /\ thrown = NoError
  /\ printed = FALSE
  /\ prevClosed = {}
  /\ \E split \in Splits :
       \E pair \in SnapshotPairs(split, 2 * MaxDiffId) :
         /\ previous = pair.previous
         /\ current = pair.current
  /\ prevMap = <<>>
  /\ currMap = <<>>
  /\ diff = NoDiff
  /\ NoStorage
  /\ NoConfiguration

\* diffTasks(previous, current): the two maps, then the five lists.
DiffSnapshots ==
  /\ pc = "start"
  /\ cmd = "tasks:diff"
  /\ prevMap' = normalizedMap(previous)
  /\ currMap' = normalizedMap(current)
  /\ diff' = diffTasks(previous, current)
  /\ pc' = "done"
  /\ UNCHANGED <<configuration, storage, token, remote, argv, history, previous, current,
                 updates, listed, targets, uniqueTargets, resolved, idx, results,
                 responses, attempts, calls, exitCode, thrown, printed>>

NextDiff == DiffSnapshots

SpecDiff == InitDiff /\ [][NextDiff]_vars

(***************************************************************************)
(* tasks:diff: the command.  The tasks are fetched, the snapshot file is   *)
(* read, the diff is computed and printed, and the snapshot is replaced.   *)
(***************************************************************************)
\* The versions of a task the remote service holds in this model.
Versions ==
  {[f \in {} |-> Undef], [is_completed |-> Bool(TRUE)], [content |-> Str("b")]}

\* The task collections: some of the tasks, by ascending id.
RECURSIVE Collections(_)
Collections(n) ==
  IF n = 0 THEN {<<>>}
  ELSE {c \o t : c \in Collections(n - 1),
                 t \in {<<>>} \cup {<<RawTask(n, version)>> : version \in Versions}}

\* The collections one change of one task away from c, and c itself.
TaskOf(c, n) == {c[i] : i \in {j \in 1..Len(c) : c[j].id = StrId(n)}}
Nearby(c) ==
  {d \in Collections(MaxDiffId) :
     Cardinality({n \in DiffIds : TaskOf(c, n) # TaskOf(d, n)}) <= 1}

\* What the snapshot file can hold when the command starts: nothing, a
\* snapshot of an earlier collection, or something else.
CacheChoices(c) ==
  {NoFile, Unreadable, NotJson, JsonFile(Null), JsonFile(Obj(<<>>, NoFields))}
    \cup {JsonFile(Arr(d)) : d \in Nearby(c)}

\* A conversion that stores the empty list whatever it is given.
JsonOfNothing(v) == Arr(<<>>)

\* JSON.stringify followed by JSON.parse: an undefined member is dropped
\* and an undefined element becomes null.  The fields of a task record are
\* read by name, so a member that is undefined reads as one that is absent.
RECURSIVE JsonOf(_)
JsonOf(v) ==
  IF "k" \in DOMAIN v THEN v
  ELSE IF "t" \notin DOMAIN v THEN [f \in DOMAIN v |-> JsonOf(v[f])]
  ELSE CASE v.t = "array" ->
              Arr([i \in 1..Len(v.a) |-> IF v.a[i] = Undef THEN Null ELSE JsonOf(v.a[i])])
         [] v.t = "object" ->
              Obj(SelectSeq(v.keys, LAMBDA key : v.o[key] # Undef),
                  [f \in {g \in DOMAIN v.o : v.o[g] # Undef} |-> JsonOf(v.o[f])])
         [] OTHER -> v

\* GET /tasks: the collection, or a failure of the service.
FetchReplies == {Reply(200, <<>>, <<>>), Reply(500, BodyEmpty, <<>>)}

\* previous.map(...) on a value that is not an array.
NotAFunction ==
  <<"p","r","e","v","i","o","u","s",".","m","a","p"," ","i","s"," ","n","o","t"," ","a"," ","f","u","n","c","t","i","o","n">>
ReadingMapOfNull ==
  <<"C","a","n","n","o","t"," ","r","e","a","d"," ","p","r","o","p","e","r","t","i","e","s"," ","o","f"," ","n","u","l","l"," ","(","r","e","a","d","i","n","g"," ","'","m","a","p","'",")">>
TypeError(value) ==
  LocalError(IF value = Null THEN ReadingMapOfNull ELSE NotAFunction)

InitSnapshot ==
  /\ token \in {Null, Str("secret")}
  /\ remote = [n \in IdVals |-> "open"]
  /\ run = 1
  /\ cmd = "tasks:diff"
  /\ taskIds = <<>>
  /\ options \in {[o \in OptionNames |-> IF o = "cacheUpdate" THEN Bool(update) ELSE Undef] :
                    update \in BOOLEAN}
  /\ pc = "start"
  /\ updates = NoFields
  /\ listed = <<>>
  /\ targets = <<>>
  /\ uniqueTargets = <<>>
  /\ resolved = FALSE
  /\ idx = 1
  /\ results = <<>>
  /\ responses = <<>>
  /\ attempts = <<>>
  /\ calls = <<>>
  /\ exitCode = 0
  /\ thrown = NoError
  /\ printed = FALSE
  /\ prevClosed = {}
  /\ previous = <<>>
  /\ current = <<>>
  /\ prevMap = <<>>
  /\ currMap = <<>>
  /\ diff = NoDiff
  /\ collection \in Collections(MaxDiffId)
  /\ cache \in CacheChoices(collection)
  /\ cacheAtStart = cache
  /\ loaded = Arr(<<>>)
  /\ reads = 0
  /\ writes = 0
  /\ written = FALSE
  /\ lastStored = NothingStored
  /\ NoConfiguration

Untouched ==
  UNCHANGED <<token, remote, argv, history, updates, listed, targets,
              uniqueTargets, resolved, idx, results, attempts,
              collection, cacheAtStart, lastStored, configuration>>

\* const tasks = await client.getTasks(filters): an error ends the handler
\* in withClient's catch.
TasksDiffFetch ==
  /\ pc = "start"
  /\ cmd = "tasks:diff"
  /\ IF ~Truthy(token)
       THEN Caught(NoTokenError) /\ UNCHANGED <<calls, responses, current>>
       ELSE \E reply \in FetchReplies :
              /\ calls' = Append(calls, GetTasksCall(closeFilters(options)))
              /\ responses' = Append(responses, reply)
              /\ IF ResponseOk(reply)
                   THEN /\ current' = collection
                        /\ pc' = "read"
                        /\ UNCHANGED <<exitCode, thrown>>
                   ELSE Caught(ResponseError(reply)) /\ UNCHANGED current
  /\ UNCHANGED <<previous, prevMap, currMap, diff, cache, loaded, reads, writes,
                 written, printed>>
  /\ Untouched

\* let previous = []; try { if (existsSync) previous = JSON.parse(read) }
\* catch {}: a file that is absent, unreadable or not JSON leaves [].
readCache(file) ==
  IF file.file = "text" /\ file.json THEN file.value ELSE Arr(<<>>)

\* The read step, diffTasks and the output, up to the next await: a
\* TypeError of diffTasks ends the handler in withClient's catch.
TasksDiffRead ==
  /\ pc = "read"
  /\ cmd = "tasks:diff"
  /\ reads' = IF cache.file = "absent" THEN reads ELSE reads + 1
  /\ loaded' = readCache(cache)
  /\ IF readCache(cache).t = "array"
       THEN /\ previous' = readCache(cache).a
            /\ prevMap' = normalizedMap(readCache(cache).a)
            /\ currMap' = normalizedMap(current)
            /\ diff' = diffTasks(readCache(cache).a, current)
            /\ printed' = TRUE
            /\ pc' = "write"
            /\ UNCHANGED <<exitCode, thrown>>
       ELSE /\ Caught(TypeError(readCache(cache)))
            /\ UNCHANGED <<previous, prevMap, currMap, diff, printed>>
  /\ UNCHANGED <<current, calls, responses, cache, writes, written>>
  /\ Untouched

\* A write step that takes no notice of --no-cache-update.
cacheUpdateAlways(opts) == TRUE

\* if (options.cacheUpdate !== false)
cacheUpdate(opts) == opts.cacheUpdate # Bool(FALSE)

\* writeFileSync(cachePath, JSON.stringify(tasks)) in a try whose catch is
\* empty: the file is replaced, or the write fails and nothing is said; a
\* write that fails leaves the file as it was or cut short.
TasksDiffWrite ==
  /\ pc = "write"
  /\ cmd = "tasks:diff"
  /\ IF cacheUpdate(options)
       THEN /\ writes' = writes + 1
            /\ \/ /\ written' = TRUE
                  /\ cache' = JsonFile(JsonOf(Arr(current)))
               \/ /\ written' = FALSE
                  /\ cache' \in {cache, NotJson}
       ELSE UNCHANGED <<writes, written, cache>>
  /\ pc' = "done"
  /\ UNCHANGED <<diffing, calls, responses, exitCode, thrown, printed, loaded,
                 reads>>
  /\ Untouched

\* tasks:diff is run again with the same command line; the remote
\* collection is the same or has changed in one task.
TasksDiffAgain ==
  /\ pc = "done"
  /\ cmd = "tasks:diff"
  /\ run < MaxRuns
  /\ run' = run + 1
  /\ lastStored' = IF printed /\ written
                     THEN [stored |-> TRUE, tasks |-> current]
                     ELSE NothingStored
  /\ collection' \in Nearby(collection)
  /\ cacheAtStart' = cache
  /\ pc' = "start"
  /\ calls' = <<>>
  /\ responses' = <<>>
  /\ exitCode' = 0
  /\ thrown' = NoError
  /\ printed' = FALSE
  /\ previous' = <<>>
  /\ current' = <<>>
  /\ prevMap' = <<>>
  /\ currMap' = <<>>
  /\ diff' = NoDiff
  /\ loaded' = Arr(<<>>)
  /\ reads' = 0
  /\ writes' = 0
  /\ written' = FALSE
  /\ UNCHANGED <<token, remote, argv, prevClosed, updates, listed, targets,
                 uniqueTargets, resolved, idx, results, attempts, cache,
                 configuration>>

NextSnapshot ==
  \/ TasksDiffFetch
  \/ TasksDiffRead
  \/ TasksDiffWrite
  \/ TasksDiffAgain

SpecSnapshot == InitSnapshot /\ [][NextSnapshot]_vars

(***************************************************************************)
(* Config (src/src/lib/config.js): the file, loadConfig, migrateConfig,    *)
(* get, set, reset.                                                        *)
(***************************************************************************)
\* A member of the parsed file that is an object.
Nested(o) == [t |-> "nested", o |-> o]

\* JSON.stringify(configToSave, null, 2), as the tree JSON.parse gives back.
TreeOf(config, h) ==
  [part \in Sections |->
     IF config[part].t = "ref" THEN Nested(h[config[part].at]) ELSE config[part]]

\* The config files: none, one that is not JSON, or the JSON of an object
\* with some of the members auth and api.
AuthMembers ==
  {Undef, Null, Str("x"), Nested(With("token", Null)), Nested(With("token", SomeToken))}
ApiMembers ==
  {Undef, Null, Nested(EmptyObject)}
    \cup {Nested(With("base_url", url)) :
            url \in {V1Url, V1UrlWithSlash, DEFAULT_BASE_URL, CustomUrl}}
ConfigFiles ==
  {NoFile, NotJson}
    \cup {JsonFile([auth |-> auth, defaults |-> Undef, output |-> Undef, api |-> api]) :
            auth \in AuthMembers, api \in ApiMembers}

Parsed(file) == file.file = "text" /\ file.json

\* { ...DEFAULT_CONFIG, ...parsed }: a member of the file replaces the
\* member of the defaults; without a file that parses, the copy of the
\* defaults alone.
spreadOver(file) ==
  IF Parsed(file)
    THEN [part \in Sections |->
            IF file.value[part] = Undef THEN DEFAULT_CONFIG[part]
            ELSE IF file.value[part].t = "nested" THEN Ref(At("parsed", part))
            ELSE file.value[part]]
    ELSE DEFAULT_CONFIG
parsedInto(file, h) ==
  IF Parsed(file)
    THEN [a \in Addresses |->
            IF a.home = "parsed" /\ file.value[a.part] # Undef /\ file.value[a.part].t = "nested"
              THEN file.value[a.part].o
              ELSE h[a]]
    ELSE h

\* An upgrade test that never fires.
isOldDefaultNever(url) == FALSE

\* next.api.base_url === 'https://api.todoist.com/rest/v1'
isOldDefault(url) == url = V1Url

\* migrateConfig: the copy, its api member, and the upgrade of the old URL.
migrateConfig(config, h) ==
  LET next == IF Truthy(config.api) THEN config
              ELSE [config EXCEPT !.api = Ref(At("created", "api"))]
      h1 == IF Truthy(config.api) THEN h
            ELSE [h EXCEPT ![At("created", "api")] = EmptyObject]
      updated == next.api.t = "ref" /\ isOldDefault(h1[next.api.at].base_url)
  IN [config |-> next,
      heap |-> IF updated
                 THEN [h1 EXCEPT ![next.api.at].base_url = DEFAULT_BASE_URL]
                 ELSE h1,
      updated |-> updated]

\* loadConfig up to the save.
loadConfig(file, h) == migrateConfig(spreadOver(file), parsedInto(file, h))

\* get(key, fallback) for a key of two parts.
get(config, h, part, field, fallback) ==
  IF config[part] = Undef THEN fallback
  ELSE IF config[part].t = "ref" /\ h[config[part].at][field] # Undef
    THEN h[config[part].at][field]
    ELSE fallback
getToken(config, h) == get(config, h, "auth", "token", Undef)
getBaseUrl(config, h) ==
  get(config, h, "api", "base_url", h[At("DEFAULT_CONFIG", "api")].base_url)

\* The keys set() is called with.
Keys == {<<"auth", "token">>, <<"api", "base_url">>}
ValuesOf(key) ==
  IF key = <<"auth", "token">> THEN {Null, SomeToken, OtherToken}
  ELSE {V1Url, CustomUrl}

\* this.config = { ...DEFAULT_CONFIG }
shallowCopyOfDefaults(h) == [config |-> DEFAULT_CONFIG, heap |-> h]

InitConfig ==
  /\ token = Null
  /\ remote = [n \in IdVals |-> "open"]
  /\ run = 1
  /\ cmd = "config"
  /\ taskIds = <<>>
  /\ options = [o \in OptionNames |-> Undef]
  /\ pc = "start"
  /\ updates = NoFields
  /\ listed = <<>>
  /\ targets = <<>>
  /\ uniqueTargets = <<>>
  /\ resolved = FALSE
  /\ idx = 1
  /\ results = <<>>
  /\ responses = <<>>
  /\ attempts = <<>>
  /\ calls = <<>>
  /\ exitCode = 0
  /\ thrown = NoError
  /\ printed = FALSE
  /\ prevClosed = {}
  /\ previous = <<>>
  /\ current = <<>>
  /\ prevMap = <<>>
  /\ currMap = <<>>
  /\ diff = NoDiff
  /\ NoStorage
  /\ heap = InitialHeap
  /\ thisConfig = DEFAULT_CONFIG
  /\ configFile \in ConfigFiles
  /\ fileAtLoad = configFile
  /\ savedOnLoad = FALSE
  /\ lastCall = "none"

OnlyConfig ==
  UNCHANGED <<token, remote, argv, history, diffing, storage, updates, listed,
              targets, uniqueTargets, resolved, idx, results, responses,
              attempts, calls, exitCode, thrown, printed>>

\* saveConfig: the file is replaced, or the write throws.
saveConfig(config, h, ok) ==
  configFile' = IF ok THEN JsonFile(TreeOf(config, h)) ELSE configFile

\* new Config(): loadConfig, and the save of a migrated configuration, which
\* is outside the try: when it throws, the constructor throws.
ConfigLoad ==
  /\ cmd = "config"
  /\ pc = "start"
  /\ LET result == loadConfig(configFile, heap)
     IN /\ heap' = result.heap
        /\ thisConfig' = result.config
        /\ IF result.updated
             THEN \E ok \in BOOLEAN :
                    /\ saveConfig(result.config, result.heap, ok)
                    /\ savedOnLoad' = ok
                    /\ pc' = IF ok THEN "loaded" ELSE "crashed"
             ELSE /\ UNCHANGED <<configFile, savedOnLoad>>
                  /\ pc' = "loaded"
  /\ fileAtLoad' = configFile
  /\ lastCall' = "load"
  /\ OnlyConfig

\* set(key, value) for a key of two parts: the member is made an object
\* when it is none (typeof null is 'object', so null stays and the
\* assignment throws), the field is assigned, the file is saved.
ConfigSet ==
  /\ cmd = "config"
  /\ pc = "loaded"
  /\ \E key \in Keys : \E value \in ValuesOf(key) : \E ok \in BOOLEAN :
       LET part == key[1]
           field == key[2]
           made == thisConfig[part] = Undef
                     \/ (thisConfig[part].t # "ref" /\ thisConfig[part] # Null)
           config1 == IF made THEN [thisConfig EXCEPT ![part] = Ref(At("created", part))]
                      ELSE thisConfig
           heap1 == IF made THEN [heap EXCEPT ![At("created", part)] = EmptyObject]
                    ELSE heap
       IN IF config1[part] = Null
            THEN UNCHANGED <<heap, thisConfig, configFile>>
            ELSE /\ thisConfig' = config1
                 /\ heap' = [heap1 EXCEPT ![config1[part].at][field] = value]
                 /\ saveConfig(thisConfig', heap', ok)
  /\ lastCall' = "set"
  /\ UNCHANGED <<pc, fileAtLoad, savedOnLoad>>
  /\ OnlyConfig

\* reset(): this.config = { ...DEFAULT_CONFIG }; this.saveConfig()
ConfigReset ==
  /\ cmd = "config"
  /\ pc = "loaded"
  /\ \E ok \in BOOLEAN :
       LET fresh == shallowCopyOfDefaults(heap)
       IN /\ thisConfig' = fresh.config
          /\ heap' = fresh.heap
          /\ saveConfig(fresh.config, fresh.heap, ok)
  /\ lastCall' = "reset"
  /\ UNCHANGED <<pc, fileAtLoad, savedOnLoad>>
  /\ OnlyConfig

\* The process ends and another starts: the module is loaded afresh, the
\* file stays.
ConfigRestart ==
  /\ cmd = "config"
  /\ pc \in {"loaded", "crashed"}
  /\ pc' = "start"
  /\ heap' = InitialHeap
  /\ thisConfig' = DEFAULT_CONFIG
  /\ savedOnLoad' = FALSE
  /\ lastCall' = "none"
  /\ fileAtLoad' = configFile
  /\ UNCHANGED configFile
  /\ OnlyConfig

NextConfig ==
  \/ ConfigLoad
  \/ ConfigSet
  \/ ConfigReset
  \/ ConfigRestart

SpecConfig == InitConfig /\ [][NextConfig]_vars

(***************************************************************************)
(* Vocabulary of the properties.                                           *)
(***************************************************************************)
UpperLetters == <<"A","B","C","D","E","F","G","H","I","J","K","L","M","N","O","P","Q","R","S","T","U","V","W","X","Y","Z">>
LowerChar(ch) ==
  IF \E i \in 1..26 : UpperLetters[i] = ch
    THEN LowerLetters[CHOOSE i \in 1..26 : UpperLetters[i] = ch]
    ELSE ch
LowerCase(s) == [i \in 1..Len(s) |-> LowerChar(s[i])]

Elements(q) == {q[i] : i \in 1..Len(q)}
FirstIndex(q, x) == CHOOSE i \in 1..Len(q) : q[i] = x /\ \A j \in 1..(i - 1) : q[j] # x

\* u holds each element of t once, in the order of first appearance in t.
FirstSeenOrder(u, t) ==
  /\ Elements(u) = Elements(t)
  /\ \A i, j \in 1..Len(u) : i < j => u[i] # u[j]
  /\ \A i, j \in 1..Len(u) : i < j => FirstIndex(t, u[i]) < FirstIndex(t, u[j])

IsBatch == cmd \in BatchCommands
Done == pc = "done"
NoTargetsError == thrown.message = NoTargetsMessage
NoUpdatesError == thrown.message = NoUpdatesMessage
ListCalls == {i \in 1..Len(calls) : IsListCall(calls[i])}
Mutations == {i \in 1..Len(calls) : IsMutation(calls[i])}
Failed == {i \in 1..Len(results) : results[i].status = "failed"}
AnyScoping ==
  Truthy(options.filter) \/ Truthy(options.project) \/ Truthy(options.label)

(***************************************************************************)
(* Batch execution: one entry per target, in resolution order.             *)
(***************************************************************************)
\* C1: in tasks:close and tasks:update, whatever calls fail, the results hold
\* the entries of the targets processed so far, in resolution order, and at
\* the end of the command exactly one entry per resolved target.
C1_OneEntryPerTarget ==
  IsBatch /\ resolved =>
    /\ Len(results) <= Len(uniqueTargets)
    /\ \A i \in 1..Len(results) : results[i].id = uniqueTargets[i]
    /\ Done /\ uniqueTargets # <<>> => Len(results) = Len(uniqueTargets)

\* A finished batch whose first target failed and whose second did not.
C1_Witness ==
  /\ IsBatch
  /\ Done
  /\ Len(uniqueTargets) >= 2
  /\ Len(results) = Len(uniqueTargets)
  /\ results[1].status = "failed"
  /\ results[2].status # "failed"

(***************************************************************************)
(* Target resolution.                                                      *)
(***************************************************************************)
\* C2: the resolved targets are the explicit IDs followed by the listed
\* identifiers, each kept once at its first position; identifiers are equal
\* only as values, the string "1" and the number 1 being two targets.
C2_ResolutionOrder ==
  IsBatch /\ resolved =>
    /\ targets = taskIds \o listed
    /\ FirstSeenOrder(uniqueTargets, taskIds \o listed)

\* Explicit IDs [A, B, A] and a list query that returns B resolve to [A, B].
C2_Witness ==
  /\ IsBatch
  /\ resolved
  /\ taskIds = <<StrId(1), StrId(2), StrId(1)>>
  /\ listed = <<StrId(2)>>
  /\ uniqueTargets = <<StrId(1), StrId(2)>>

(***************************************************************************)
(* Idempotent close.                                                       *)
(***************************************************************************)
\* The message of the error the i-th target's call failed with.
FailureMessage(i) == ResponseError(responses[i]).message
CallFailed(i) == responses[i] # NoResponse /\ ~ResponseOk(responses[i])

\* C3: when tasks:close is run again on targets the previous run closed or
\* left unchanged, and the service still holds them closed, the second run
\* records every one of them as unchanged.
C3_SecondRunUnchanged ==
  cmd = "tasks:close" /\ run >= 2 =>
    \A i \in 1..Len(results) :
      results[i].id \in prevClosed /\ remote[PathId(results[i].id)] = "closed"
        => results[i].status = "unchanged"

\* C4: in tasks:close, a failure whose message contains "already" in any
\* letter case is recorded as unchanged.
C4_AlreadyAnyCase ==
  cmd = "tasks:close" =>
    \A i \in 1..Len(results) :
      CallFailed(i) /\ Includes(LowerCase(FailureMessage(i)), AlreadyLower)
        => results[i].status = "unchanged"

\* C5: in tasks:close, a target whose call fails with 404 (TASK_NOT_FOUND) is
\* recorded as failed, whatever the text of the message.
C5_NotFoundIsFailed ==
  cmd = "tasks:close" =>
    \A i \in 1..Len(results) :
      CallFailed(i) /\ ResponseError(responses[i]).code = "TASK_NOT_FOUND"
        => results[i].status = "failed"

(***************************************************************************)
(* Errors of a malformed invocation.                                       *)
(***************************************************************************)
\* C6 as stated: a batch command that ends with NoTargetsError or
\* NoUpdatesError has issued no remote call at all.
C6_NoCallAtAll ==
  IsBatch /\ Done /\ (NoTargetsError \/ NoUpdatesError) => calls = <<>>

\* C6 amended: a batch command that ends with NoUpdatesError has issued no
\* remote call; one that ends with NoTargetsError has issued no mutation, and
\* at most the one list query of its target resolution, which it issues only
\* when a scoping option is given.
C6_NoCallBeforeError ==
  IsBatch /\ Done =>
    /\ NoUpdatesError => calls = <<>>
    /\ NoTargetsError =>
         /\ Mutations = {}
         /\ Len(calls) <= 1
         /\ \A i \in 1..Len(calls) : IsListCall(calls[i])
         /\ calls # <<>> => AnyScoping

\* A filter that selects nothing: NoTargetsError after one list query.
C6_Witness ==
  /\ IsBatch
  /\ Done
  /\ NoTargetsError
  /\ Len(calls) = 1
  /\ IsListCall(calls[1])

\* Every field of the update is unset on the command line: --labels with an
\* empty value and the absent flags --favorite and --unfavorite set nothing.
FieldUnset(o) ==
  IF o \in {"labels", "favorite", "unfavorite"}
    THEN ~Truthy(options[o])
    ELSE options[o] = Undef
NoFieldGiven == \A o \in CommandOptions(cmd) \ ScopeOptions(cmd) : FieldUnset(o)

\* C7 as stated: a batch command with no explicit IDs and no filter, project
\* or label ends with NoTargetsError.
C7_EmptyIsNoTargets ==
  IsBatch /\ Done /\ taskIds = <<>> /\ ~AnyScoping => NoTargetsError

\* C7 amended: a batch command that finds its deduplicated target set empty
\* ends with NoTargetsError, a non-zero exit code, no close or update call
\* and nothing printed; with no explicit IDs and no filter, project or label
\* it ends that way, except that tasks:update with every update field unset
\* ends with NoUpdatesError, which it checks first.
C7_EmptyTargetsFail ==
  /\ IsBatch /\ resolved /\ uniqueTargets = <<>> =>
       /\ Done
       /\ NoTargetsError
       /\ exitCode # 0
       /\ Mutations = {}
       /\ ~printed
  /\ IsBatch /\ Done /\ taskIds = <<>> /\ ~AnyScoping =>
       /\ exitCode # 0
       /\ Mutations = {}
       /\ ~printed
       /\ \/ NoTargetsError
          \/ cmd = "tasks:update" /\ NoFieldGiven /\ NoUpdatesError

\* tasks:close with neither IDs nor scoping.
C7_Witness ==
  /\ cmd = "tasks:close"
  /\ Done
  /\ taskIds = <<>>
  /\ ~AnyScoping
  /\ resolved
  /\ NoTargetsError

\* C8: an update command with every update field unset ends with the
\* no-updates error and a non-zero exit code; it issues no remote call, and
\* the batch update neither resolves targets nor processes any.
C8_NoUpdatesBeforeAnyCall ==
  cmd \in {"tasks:update"} \cup SingleUpdateCommands /\ NoFieldGiven =>
    /\ calls = <<>>
    /\ ~resolved
    /\ results = <<>>
    /\ pc \in {"start", "done"}
    /\ Done => NoUpdatesError /\ exitCode # 0 /\ ~printed

\* tasks:update with IDs, a filter and a credential, but nothing to update.
C8_Witness ==
  /\ cmd = "tasks:update"
  /\ Done
  /\ Len(taskIds) >= 2
  /\ Truthy(options.filter)
  /\ Truthy(token)
  /\ NoUpdatesError
  /\ calls = <<>>

(***************************************************************************)
(* The list query of target resolution.                                    *)
(***************************************************************************)
\* The query a list call carries for the scoping of the command line.
ScopingQuery ==
  [project_id |-> QueryParam(options.project),
   label_id |-> QueryParam(options.label),
   filter |-> QueryParam(options.filter)]
FilterQuery ==
  [project_id |-> Undef, label_id |-> Undef, filter |-> QueryParam(options.filter)]

C10_ExitReflectsFailures ==
  IsBatch /\ Done /\ resolved /\ uniqueTargets # <<>> =>
    (exitCode # 0 <=> Failed # {})

(***************************************************************************)
(* Batch execution: one call per target, one outcome per call.             *)
(***************************************************************************)
\* The operation the batch command invokes for a target, and its fetch.
TargetOperation(id) ==
  IF cmd = "tasks:close" THEN closeTask(id) ELSE updateTask(id, updates)
TargetCall(id) ==
  IF cmd = "tasks:close" THEN CloseTaskCall(id) ELSE UpdateCall("tasks", id, updates)
MutatingCalls == SelectSeq(calls, IsMutation)

OutcomeStatuses ==
  IF cmd = "tasks:close" THEN {"closed", "unchanged", "failed"}
                         ELSE {"updated", "failed"}

\* C12: every outcome entry of a batch command carries the identifier of its
\* target and one status, closed or updated, unchanged, or failed; it
\* carries an error message exactly when the status is failed, and nothing
\* else.
C12_OutcomeShape ==
  IsBatch =>
    \A i \in 1..Len(results) :
      LET entry == results[i]
      IN /\ {"id", "status"} \subseteq DOMAIN entry
         /\ DOMAIN entry \subseteq {"id", "status", "error"}
         /\ entry.id = uniqueTargets[i]
         /\ entry.status \in OutcomeStatuses
         /\ "error" \in DOMAIN entry <=> entry.status = "failed"
         /\ entry.status = "failed" => entry.error = (IF CallFailed(i)
                                                       THEN FailureMessage(i)
                                                       ELSE NoTokenMessage)

\* tasks:close has recorded an unchanged target and a failed one, the failed
\* one with the message of its error.
C12_Witness ==
  /\ cmd = "tasks:close"
  /\ Done
  /\ \E i, j \in 1..Len(results) :
       /\ results[i].status = "unchanged"
       /\ DOMAIN results[i] = {"id", "status"}
       /\ results[j].status = "failed"
       /\ results[j].error = FailureMessage(j)

(***************************************************************************)
(* tasks:diff: the five lists.                                             *)
(***************************************************************************)
Diffed == cmd = "tasks:diff" /\ pc = "done"
SnapshotIds(tasks) == {tasks[i].id : i \in 1..Len(tasks)}
RawOf(tasks, id) == tasks[CHOOSE i \in 1..Len(tasks) : tasks[i].id = id]
InBoth == SnapshotIds(previous) \cap SnapshotIds(current)
ListIds(list) == {list[i].id : i \in 1..Len(list)}
ModifiedIds == {diff.modified[i].after.id : i \in 1..Len(diff.modified)}
OtherFields == {CanonicalKeys[i] : i \in 1..Len(CanonicalKeys)} \ {"id", "is_completed"}

\* C13: added holds the canonical forms of the tasks of current whose id
\* previous lacks, removed those of the tasks of previous whose id current
\* lacks, one entry per id and no other entry.
C13_AddedAndRemoved ==
  Diffed =>
    /\ ListIds(diff.added) = SnapshotIds(current) \ SnapshotIds(previous)
    /\ ListIds(diff.removed) = SnapshotIds(previous) \ SnapshotIds(current)
    /\ Len(diff.added) = Cardinality(ListIds(diff.added))
    /\ Len(diff.removed) = Cardinality(ListIds(diff.removed))
    /\ \A i \in 1..Len(diff.added) :
         diff.added[i] = normalizeTaskForDiff(RawOf(current, diff.added[i].id))
    /\ \A i \in 1..Len(diff.removed) :
         diff.removed[i] = normalizeTaskForDiff(RawOf(previous, diff.removed[i].id))

\* One task was added and another removed.
C13_Witness ==
  /\ Diffed
  /\ Len(diff.added) = 1
  /\ Len(diff.removed) = 1
  /\ diff.added[1].id # diff.removed[1].id
  /\ diff.added[1].id \in SnapshotIds(current)
  /\ diff.removed[1].id \in SnapshotIds(previous)

\* C14: a task of both snapshots is in completed exactly when its canonical
\* completion flag is false in previous and true in current, and in
\* reopened exactly when it is true in previous and false in current,
\* whatever its other fields do.
C14_StatusLists ==
  Diffed =>
    \A id \in InBoth :
      LET before == MapGet(prevMap, id).is_completed
          after == MapGet(currMap, id).is_completed
      IN /\ id \in ListIds(diff.completed)
              <=> (before = Bool(FALSE) /\ after = Bool(TRUE))
         /\ id \in ListIds(diff.reopened)
              <=> (before = Bool(TRUE) /\ after = Bool(FALSE))

\* A task was completed and its content changed as well: it is in completed.
C14_Witness ==
  /\ Diffed
  /\ \E id \in InBoth :
       /\ RawOf(previous, id).is_completed = Bool(FALSE)
       /\ RawOf(current, id).is_completed = Bool(TRUE)
       /\ RawOf(previous, id).content # RawOf(current, id).content
       /\ id \in ListIds(diff.completed)
       /\ id \notin ListIds(diff.reopened)

\* C15: a task of both snapshots has a modified entry exactly when its two
\* canonical forms differ in a field other than the completion flag; a
\* flip of the flag alone puts it in completed or reopened and not in
\* modified.
C15_ModifiedList ==
  Diffed =>
    \A id \in InBoth :
      LET before == MapGet(prevMap, id)
          after == MapGet(currMap, id)
          others == \E f \in OtherFields : before[f] # after[f]
      IN /\ id \in ModifiedIds <=> others
         /\ Len(diff.modified) = Cardinality(ModifiedIds)
         /\ \A i \in 1..Len(diff.modified) :
              diff.modified[i].after.id = id =>
                diff.modified[i] = [before |-> before, after |-> after]
         /\ ~others /\ before.is_completed # after.is_completed =>
              /\ id \notin ModifiedIds
              /\ id \in ListIds(diff.completed) \cup ListIds(diff.reopened)

\* The completion flag of a task flipped and nothing else changed: the task
\* is in completed and has no modified entry.
C15_Witness ==
  /\ Diffed
  /\ \E id \in InBoth :
       /\ \A f \in OtherFields : MapGet(prevMap, id)[f] = MapGet(currMap, id)[f]
       /\ MapGet(prevMap, id).is_completed = Bool(FALSE)
       /\ MapGet(currMap, id).is_completed = Bool(TRUE)
       /\ id \in ListIds(diff.completed)
       /\ id \notin ModifiedIds

\* Two label sequences hold the same labels the same number of times.
Permutation(a, b) ==
  /\ Len(a) = Len(b)
  /\ \A x \in Elements(a) \cup Elements(b) :
       Cardinality({i \in 1..Len(a) : a[i] = x})
         = Cardinality({i \in 1..Len(b) : b[i] = x})

\* C16: when the labels of a task in the two snapshots are permutations of
\* each other and its other fields are equal, the two canonical forms are
\* equal and the task has no modified entry.
C16_LabelOrder ==
  Diffed =>
    \A id \in InBoth :
      LET before == RawOf(previous, id)
          after == RawOf(current, id)
      IN /\ before.labels.t = "array"
         /\ after.labels.t = "array"
         /\ Permutation(before.labels.a, after.labels.a)
         /\ \A f \in DOMAIN before \ {"labels"} : before[f] = after[f]
         => /\ MapGet(prevMap, id) = MapGet(currMap, id)
            /\ id \notin ModifiedIds

\* The labels of a task are [x, y] in previous and [y, x] in current.
C16_Witness ==
  /\ Diffed
  /\ \E id \in InBoth :
       /\ RawOf(previous, id).labels = Arr(<<LabelX, LabelY>>)
       /\ RawOf(current, id).labels = Arr(<<LabelY, LabelX>>)
       /\ MapGet(prevMap, id).labels = Arr(<<LabelX, LabelY>>)
       /\ MapGet(currMap, id) = MapGet(prevMap, id)
       /\ id \notin ModifiedIds

\* The ids of each list of the diff.
IdsIn ==
  [added |-> ListIds(diff.added), removed |-> ListIds(diff.removed),
   completed |-> ListIds(diff.completed), reopened |-> ListIds(diff.reopened),
   modified |-> ModifiedIds]
ListNames == DOMAIN IdsIn
ListsOf(id) == {name \in ListNames : id \in IdsIn[name]}

\* C17 as stated: no id is in two of the five lists.
C17_AllDisjoint ==
  Diffed =>
    \A a, b \in ListNames : a # b => IdsIn[a] \cap IdsIn[b] = {}

\* C17: added, removed, completed and reopened are pairwise disjoint, and
\* modified is disjoint from added and from removed; modified and a status
\* list may hold the same id.
C17_DisjointButModified ==
  Diffed =>
    \A a, b \in ListNames :
      a # b /\ {a, b} \notin {{"completed", "modified"}, {"reopened", "modified"}}
        => IdsIn[a] \cap IdsIn[b] = {}

\* The diff holds one task in two lists, completed and modified.
C17_Witness ==
  /\ Diffed
  /\ \E id \in InBoth : ListsOf(id) = {"completed", "modified"}

\* C18: an id of added or removed is in no other list, and an id that is in
\* two lists is in modified and in one of completed and reopened.
C18_AddedRemovedAlone ==
  Diffed =>
    \A id \in SnapshotIds(previous) \cup SnapshotIds(current) :
      /\ ListsOf(id) \cap {"added", "removed"} # {} => Cardinality(ListsOf(id)) = 1
      /\ Cardinality(ListsOf(id)) > 1 =>
           ListsOf(id) \in {{"completed", "modified"}, {"reopened", "modified"}}

\* One task was added while another was reopened and modified.
C18_Witness ==
  /\ Diffed
  /\ \E id \in IdsIn.added : ListsOf(id) = {"added"}
  /\ \E id \in IdsIn.reopened : ListsOf(id) = {"reopened", "modified"}

(***************************************************************************)
(* tasks:diff: the legacy field names.                                     *)
(***************************************************************************)
Records == {previous[i] : i \in 1..Len(previous)} \cup {current[i] : i \in 1..Len(current)}
CanonicalIn(task) ==
  IF \E i \in 1..Len(previous) : previous[i] = task
    THEN MapGet(prevMap, task.id)
    ELSE MapGet(currMap, task.id)

\* C19: a record that carries its labels under label_ids only has them,
\* sorted, as its canonical labels.
C19_LabelIdsAccepted ==
  Diffed =>
    \A task \in Records :
      task.labels = Undef /\ task.label_ids # Undef
        => CanonicalIn(task).labels = Arr(Sort(task.label_ids.a))

\* C20: the canonical completion flag is the value of is_completed when the
\* record carries it, and the value of completed only when it does not.
C20_ModernFlagWins ==
  Diffed =>
    \A task \in Records :
      /\ task.is_completed # Undef
           => CanonicalIn(task).is_completed = task.is_completed
      /\ task.is_completed = Undef /\ task.completed # Undef
           => CanonicalIn(task).is_completed = task.completed

(***************************************************************************)
(* Failures of the setup and of the remote service.                        *)
(***************************************************************************)
\* C24: with no credential configured, a command that has ended has a
\* non-zero exit code and has issued no fetch.
C24_NoCredentialFails ==
  ~Truthy(token) /\ Done => exitCode # 0 /\ calls = <<>>

\* C25: a command that ends with an error of code TASK_NOT_FOUND exits with
\* status 4, and with another status for any other code.
C25_NotFoundExitsFour ==
  Done /\ thrown # NoError /\ thrown.status # 0 =>
    (exitCode = 4 <=> thrown.code = "TASK_NOT_FOUND")

\* The list query of target resolution threw: the command was scoped and
\* ended before the targets were resolved.
ListQueryFailed ==
  /\ IsBatch
  /\ Done
  /\ ~resolved
  /\ ~NoUpdatesError
  /\ IF cmd = "tasks:close" THEN AnyScoping ELSE Truthy(options.filter)

\* C29: when the list query of a batch command fails, the command ends with
\* a non-zero exit code, and no close or update operation is invoked or
\* issued for any target, the explicit IDs included.
C29_ListFailureAborts ==
  ListQueryFailed =>
    /\ exitCode # 0
    /\ thrown # NoError
    /\ Cardinality(ListCalls) <= 1
    /\ Mutations = {}
    /\ attempts = <<>>
    /\ results = <<>>
    /\ ~printed

\* Explicit IDs were given and the list query was answered with an error.
C29_Witness ==
  /\ ListQueryFailed
  /\ taskIds # <<>>
  /\ Cardinality(ListCalls) = 1
  /\ thrown.code = "SERVER_ERROR"
  /\ exitCode = 1

(***************************************************************************)
(* tasks:diff and the snapshot file.                                       *)
(***************************************************************************)
IsDiff == cmd = "tasks:diff"
FetchFailed ==
  IsDiff /\ Done /\ (calls = <<>> \/ ~(responses[1].status \in 200..299))
FetchSucceeded ==
  IsDiff /\ Len(responses) = 1 /\ responses[1].status \in 200..299
Reported == IsDiff /\ Done /\ printed
IsSnapshot(file) == file.file = "text" /\ file.json /\ file.value.t = "array"

\* C30: when the fetch of tasks:diff fails, the snapshot file is neither
\* read nor written and holds what it held, no diff is reported, and the
\* exit status is not zero.
C30_FetchFailureKeepsSnapshot ==
  FetchFailed =>
    /\ cache = cacheAtStart /\ reads = 0 /\ writes = 0
    /\ ~printed /\ diff = NoDiff
    /\ exitCode # 0
C30_Witness ==
  /\ FetchFailed /\ Len(responses) = 1 /\ responses[1].status = 500
  /\ IsSnapshot(cacheAtStart) /\ cacheAtStart.value.a # <<>>
  /\ options.cacheUpdate = Bool(TRUE)
  /\ exitCode = 1

CanonicalForms(tasks) == [i \in 1..Len(tasks) |-> normalizeTaskForDiff(tasks[i])]

\* C23: when there is no snapshot file yet, the diff that is reported has
\* every fetched task in added, in the order fetched, and its other four
\* lists are empty.
C23_FirstDiffAddsAll ==
  Reported /\ cacheAtStart = NoFile =>
    /\ previous = <<>>
    /\ diff.added = CanonicalForms(current)
    /\ diff.removed = <<>> /\ diff.completed = <<>>
    /\ diff.reopened = <<>> /\ diff.modified = <<>>
C23_Witness ==
  /\ Reported /\ cacheAtStart = NoFile /\ run = 1
  /\ Len(current) = 2 /\ Len(diff.added) = 2
  /\ exitCode = 0

\* C22: a diff that is reported has read the snapshot file at most once and
\* written it at most once; when the update is not suppressed and the write
\* succeeds, the file holds exactly the fetched tasks; with
\* --no-cache-update the file is not written and holds what it held.
C22_SnapshotReplaced ==
  IsDiff =>
    /\ reads <= 1 /\ writes <= 1
    /\ Reported /\ options.cacheUpdate # Bool(FALSE) /\ written =>
          cache = JsonFile(Arr(current)) /\ writes = 1
    /\ options.cacheUpdate = Bool(FALSE) =>
          cache = cacheAtStart /\ writes = 0
C22_Witness ==
  /\ Reported /\ written /\ reads = 1 /\ writes = 1
  /\ current # <<>> /\ cache # cacheAtStart
  /\ cache = JsonFile(Arr(current))
C22_WitnessSuppressed ==
  /\ Reported /\ options.cacheUpdate = Bool(FALSE)
  /\ IsSnapshot(cache) /\ cache.value # Arr(current)

\* C21: whatever the snapshot file holds, a tasks:diff whose fetch succeeded
\* has read a sequence of task records from it, reports its diff and ends
\* with exit status 0, whether or not the write succeeds.
C21_SnapshotNeverFailsDiff ==
  FetchSucceeded /\ Done =>
    /\ loaded.t = "array"
    /\ printed
    /\ exitCode = 0

\* The part of C21 that holds: a file that is absent, unreadable or not
\* JSON reads as the empty sequence, and a write that fails changes neither
\* the reported diff nor the exit status.
C21_SwallowedFailures ==
  FetchSucceeded /\ Done /\ ~(cacheAtStart.file = "text" /\ cacheAtStart.json) =>
    /\ previous = <<>> /\ printed /\ exitCode = 0
    /\ diff = diffTasks(<<>>, current)

\* The invocation before this one reported a diff and stored its snapshot,
\* and the remote collection is what that invocation fetched.
NothingChangedSince ==
  /\ IsDiff /\ run > 1
  /\ lastStored.stored
  /\ lastStored.tasks = collection

\* C27: when tasks:diff is run twice with the same scoping, the first run
\* stored its snapshot and the remote tasks did not change in between, the
\* diff the second run reports has all five lists empty.
C27_SecondDiffEmpty ==
  NothingChangedSince /\ Reported =>
    /\ diff = NoDiff
    /\ previous = current
    /\ exitCode = 0
C27_Witness ==
  /\ NothingChangedSince /\ Reported
  /\ Len(current) = 2
  /\ current[2].is_completed = Bool(TRUE)
  /\ diff = NoDiff

(***************************************************************************)
(* Config.                                                                 *)
(***************************************************************************)
IsConfig == cmd = "config"
AfterLoad == IsConfig /\ pc = "loaded" /\ lastCall = "load"
AfterReset == IsConfig /\ lastCall = "reset"
StoredBaseUrl(file) ==
  IF Parsed(file) /\ file.value.api # Undef /\ file.value.api.t = "nested"
    THEN file.value.api.o.base_url
    ELSE Undef
DefaultsIntact ==
  \A part \in Sections : heap[At("DEFAULT_CONFIG", part)] = BuiltIn[part]
BuiltInTree == [part \in Sections |-> Nested(BuiltIn[part])]

\* C26: when the constructor of Config has returned, getBaseUrl() is not
\* the old REST v1 default; a file that stored it has been saved again with
\* the v2 default, which is also the value in memory; any other stored
\* base URL is the value in memory, and the file was not saved.
C26_OldDefaultUpgraded ==
  AfterLoad =>
    /\ getBaseUrl(thisConfig, heap) # V1Url
    /\ StoredBaseUrl(fileAtLoad) = V1Url =>
         /\ getBaseUrl(thisConfig, heap) = DEFAULT_BASE_URL
         /\ savedOnLoad
         /\ StoredBaseUrl(configFile) = DEFAULT_BASE_URL
    /\ StoredBaseUrl(fileAtLoad) # V1Url =>
         /\ ~savedOnLoad
         /\ configFile = fileAtLoad
         /\ StoredBaseUrl(fileAtLoad) # Undef =>
               getBaseUrl(thisConfig, heap) = StoredBaseUrl(fileAtLoad)
C26_Witness ==
  /\ AfterLoad
  /\ StoredBaseUrl(fileAtLoad) = V1Url
  /\ fileAtLoad.value.auth = Nested(With("token", SomeToken))
  /\ StoredBaseUrl(configFile) = DEFAULT_BASE_URL
  /\ configFile.value.auth = Nested(With("token", SomeToken))
C26_WitnessOther ==
  /\ AfterLoad
  /\ StoredBaseUrl(fileAtLoad) = V1UrlWithSlash
  /\ getBaseUrl(thisConfig, heap) = V1UrlWithSlash

\* C28: after reset() the configuration is the built-in defaults, getToken()
\* returns null, and the nested objects of DEFAULT_CONFIG are as the module
\* defined them, whatever calls of set() came before in the process.
C28_ResetRestoresDefaults ==
  AfterReset =>
    /\ getToken(thisConfig, heap) = Null
    /\ TreeOf(thisConfig, heap) = BuiltInTree
    /\ DefaultsIntact

====
